---- MODULE Spec2Model ----
(***************************************************************************)
(* Model of the rental pipeline: the JSON rental store (rental_database.py)*)
(* with add_rental, sync_rentals, mark_updated and clear_old_data, its     *)
(* file as json.dump and json.load write and read it, the strategy chains  *)
(* and field extractors of the two scrapers, the website search of the     *)
(* webhook, and the registration of agents. Identity, change detection,    *)
(* deduplication and field extraction are computed as the code computes    *)
(* them.                                                                   *)
(***************************************************************************)
EXTENDS Integers, Sequences, FiniteSets, TLC

(* ------------------------------ bounds --------------------------------- *)

\* datetime.now() is read off a logical clock 0..MaxTime
MaxTime == 1
\* longest batch handed to sync_rentals
MaxBatch == 2
\* add and sync are not started when they would grow the store beyond this
MaxRentals == 3
\* the clock of the specifications that watch the staleness policy runs to here
MaxClock == 2

\* self.update_interval = timedelta(days=1); the clock counts days
UpdateInterval == 1

\* Python's None (timestamps are naturals)
None == -1

(* ------------------------------ strings -------------------------------- *)

\* strings are sequences of one-character strings
Whitespace == {" "}

\* str.lower() on one character
LowerChar(c) ==
    CASE c = "A" -> "a"
      [] c = "B" -> "b"
      [] c = "C" -> "c"
      [] c = "D" -> "d"
      [] OTHER -> c

\* str.lower()
Lower(s) == [i \in 1..Len(s) |-> LowerChar(s[i])]

RECURSIVE LStrip(_)
LStrip(s) == IF s # <<>> /\ Head(s) \in Whitespace THEN LStrip(Tail(s)) ELSE s

RECURSIVE RStrip(_)
RStrip(s) ==
    IF s # <<>> /\ s[Len(s)] \in Whitespace
    THEN RStrip(SubSeq(s, 1, Len(s) - 1))
    ELSE s

\* str.strip()
Strip(s) == RStrip(LStrip(s))

\* str() of a small non-negative integer
IntStr(n) == << <<"0","1","2","3","4","5","6","7","8","9">>[n + 1] >>

\* the fields the extractors store as integers; every other field is a string
IntFields == {"bedrooms", "bathrooms"}

\* str(record[field])
FieldStr(field, v) == IF field \in IntFields THEN IntStr(v) ELSE v

(* ------------------------------ websites ------------------------------- *)

Schemes == {"https://", "http://"}

RECURSIVE DropSchemes(_)
DropSchemes(u) ==
    IF u = <<>> THEN <<>>
    ELSE IF Head(u) \in Schemes THEN DropSchemes(Tail(u))
    ELSE <<Head(u)>> \o DropSchemes(Tail(u))

RECURSIVE UpToSlash(_)
UpToSlash(u) ==
    IF u = <<>> \/ Head(u) = "/" THEN <<>>
    ELSE <<Head(u)>> \o UpToSlash(Tail(u))

\* website.replace('https://', '').replace('http://', '').split('/')[0]
\* a URL is a sequence of tokens: schemes, "/" and name parts
CleanWebsite(u) == UpToSlash(DropSchemes(u))

(* ------------------------------ identity ------------------------------- *)

\* key_fields of _is_same_rental
KeyFields == {"bedrooms", "bathrooms", "price"}

\* important_fields of _has_data_changed
ImportantFields == {"price", "available_date", "amenities", "description"}

\* _is_same_rental(existing, new)
IsSameRental(existing, new) ==
    IF "address" \in DOMAIN existing /\ "address" \in DOMAIN new
    THEN Strip(Lower(existing.address)) = Strip(Lower(new.address))
    ELSE Cardinality({f \in KeyFields :
             /\ f \in DOMAIN existing
             /\ f \in DOMAIN new
             /\ Lower(FieldStr(f, existing[f])) = Lower(FieldStr(f, new[f]))}) >= 2

\* _has_data_changed(existing, new)
HasDataChanged(existing, new) ==
    \E f \in ImportantFields :
        IF f \in DOMAIN existing /\ f \in DOMAIN new
        THEN FieldStr(f, existing[f]) # FieldStr(f, new[f])
        ELSE f \in DOMAIN existing \/ f \in DOMAIN new

(* ------------------------------ store root ----------------------------- *)

\* the initial_data of ensure_db_exists and the fallback of load_data
EmptyRoot == [last_updated |-> None, rentals |-> <<>>, websites |-> <<>>]

\* position of the key id in the (insertion-ordered) rentals dict, 0 if absent
IndexOfId(rentals, id) ==
    IF \E i \in 1..Len(rentals) : rentals[i].id = id
    THEN CHOOSE i \in 1..Len(rentals) : rentals[i].id = id
    ELSE 0

\* data["rentals"][rental_id] = rental_entry
PutRental(rentals, entry) ==
    IF IndexOfId(rentals, entry.id) = 0
    THEN Append(rentals, entry)
    ELSE [rentals EXCEPT ![IndexOfId(rentals, entry.id)] = entry]

\* del data["rentals"][rental_id] for every id of ids
RECURSIVE DelRentals(_, _)
DelRentals(rentals, ids) ==
    IF rentals = <<>> THEN <<>>
    ELSE IF Head(rentals).id \in ids THEN DelRentals(Tail(rentals), ids)
    ELSE <<Head(rentals)>> \o DelRentals(Tail(rentals), ids)

\* the ids of the rentals of one website, as sync_rentals collects them
IdsOfWebsite(rentals, site) ==
    {rentals[i].id : i \in {j \in 1..Len(rentals) : rentals[j].website = site}}

\* len([r for r in data["rentals"].values() if r["website"] == clean_website])
CountOfWebsite(rentals, site) ==
    Cardinality({i \in 1..Len(rentals) : rentals[i].website = site})

\* _find_existing_rental returning after the first rental of the website,
\* matching or not
FindExistingRentalFirstOnly(root, site, rental_data) ==
    LET own == {i \in 1..Len(root.rentals) : root.rentals[i].website = site}
        first == CHOOSE i \in own : \A j \in own : i <= j
    IN IF own # {} /\ IsSameRental(root.rentals[first].data, rental_data)
       THEN first
       ELSE 0

\* _find_existing_rental: index of the first rental of the website that is
\* the same rental, 0 for None
FindExistingRental(root, site, rental_data) ==
    LET hits == {i \in 1..Len(root.rentals) :
                    /\ root.rentals[i].website = site
                    /\ IsSameRental(root.rentals[i].data, rental_data)}
    IN IF hits = {} THEN 0 ELSE CHOOSE i \in hits : \A j \in hits : i <= j

\* an id made of the count alone: f"{len(data['rentals']) + 1}"
NewRentalIdNoSite(root, site) == <<<<>>, Len(root.rentals) + 1>>

\* f"{clean_website}_{len(data['rentals']) + 1}"
NewRentalId(root, site) == <<site, Len(root.rentals) + 1>>

\* the websites entry add_rental initialises
WithWebsite(root, website) ==
    LET site == CleanWebsite(website)
    IN IF site \in DOMAIN root.websites THEN root
       ELSE [root EXCEPT !.websites =
                (site :> [url |-> website, last_scraped |-> None, rental_count |-> 0])
                @@ root.websites]

\* add_rental without lines 60-65 and 94-95: the rental is stored and the
\* websites entry is neither initialised nor updated
AddRentalNoWebsites(root, website, rental_data, t) ==
    LET site == CleanWebsite(website)
        k    == FindExistingRental(root, site, rental_data)
        rid  == NewRentalId(root, site)
        entry == [id |-> rid, website |-> site, source_url |-> website,
                  scraped_at |-> t, data |-> rental_data]
    IN IF k # 0
       THEN [id |-> root.rentals[k].id,
             saves |-> HasDataChanged(root.rentals[k].data, rental_data),
             created |-> FALSE,
             root |-> root]
       ELSE [id |-> rid,
             saves |-> TRUE,
             created |-> TRUE,
             root |-> [root EXCEPT !.rentals = PutRental(root.rentals, entry)]]

\* add_rental(website, rental_data) run against the loaded root at time t:
\*   id     the id it returns
\*   saves  whether it calls save_data
\*   root   what it hands to save_data
\* The match is looked up in a second load_data() copy, so the update of
\* existing_rental never reaches the copy that is saved.
AddRental(root, website, rental_data, t) ==
    LET site == CleanWebsite(website)
        data == WithWebsite(root, website)
        k    == FindExistingRental(root, site, rental_data)
        rid  == NewRentalId(data, site)
        entry == [id |-> rid, website |-> site, source_url |-> website,
                  scraped_at |-> t, data |-> rental_data]
        put  == PutRental(data.rentals, entry)
    IN IF k # 0
       THEN [id |-> root.rentals[k].id,
             saves |-> HasDataChanged(root.rentals[k].data, rental_data),
             created |-> FALSE,
             root |-> data]
       ELSE [id |-> rid,
             saves |-> TRUE,
             created |-> TRUE,
             root |-> [data EXCEPT
                         !.rentals = put,
                         !.websites[site].last_scraped = t,
                         !.websites[site].rental_count = CountOfWebsite(put, site)]]

\* sync_rentals, lines 214-217: the loop of add_rental calls, each loading
\* the file the previous one saved
\*   processed  the ids the calls returned
\*   created    the ids they handed to new listings
RECURSIVE SyncAdds(_, _, _, _, _, _)
SyncAdds(root, website, batch, t, processed, created) ==
    IF batch = <<>>
    THEN [root |-> root, processed |-> processed, created |-> created]
    ELSE LET res == AddRental(root, website, Head(batch), t)
         IN SyncAdds(IF res.saves THEN res.root ELSE root, website, Tail(batch), t,
                     processed \cup {res.id},
                     IF res.created THEN created \cup {res.id} ELSE created)

\* sync_rentals(website, current_rentals) run to completion on the loaded
\* root: the root left in the file and the pair it returns
SyncRentals(root, website, batch, t) ==
    LET existing == IdsOfWebsite(root.rentals, CleanWebsite(website))
        adds     == SyncAdds(root, website, batch, t, {}, {})
        removed  == existing \ adds.processed
    IN [root |-> IF removed # {}
                 THEN [root EXCEPT !.rentals = DelRentals(@, removed)]
                 ELSE adds.root,
        ret |-> <<Len(batch), Cardinality(removed)>>,
        created |-> adds.created]

\* clear_old_data collecting with scraped_at <= cutoff_date
OldRentalsInclusive(root, days_old, t) ==
    {root.rentals[i].id : i \in {j \in 1..Len(root.rentals) :
                                    root.rentals[j].scraped_at <= t - days_old}}

\* the rental ids clear_old_data collects: scraped_at < cutoff_date
OldRentals(root, days_old, t) ==
    {root.rentals[i].id : i \in {j \in 1..Len(root.rentals) :
                                    root.rentals[j].scraped_at < t - days_old}}

(* ------------------------------ json ----------------------------------- *)

\* Python values carry their type: [py |-> "none"], [py |-> "int", v |-> n],
\* [py |-> "str", v |-> s], [py |-> "dict", v |-> {<<key, value>>, ...}]
PyNone == [py |-> "none"]
PyInt(n) == [py |-> "int", v |-> n]
PyStr(s) == [py |-> "str", v |-> s]
PyDict(items) == [py |-> "dict", v |-> items]

\* datetime.now().isoformat(): the clock's reading as text
IsoFormat(t) == IntStr(t)

\* a timestamp field: None or an isoformat string
PyTime(t) == IF t = None THEN PyNone ELSE PyStr(IsoFormat(t))

\* f"{clean_website}_{n}" as the text it is
IdStr(id) == id[1] \o <<"_">> \o IntStr(id[2])

\* rental_data as the extractors build it
PyData(rental_data) ==
    PyDict({<<f, IF f \in IntFields THEN PyInt(rental_data[f]) ELSE PyStr(rental_data[f])>> :
               f \in DOMAIN rental_data})

\* rental_entry of add_rental
PyEntry(entry) ==
    PyDict({<<"id", PyStr(IdStr(entry.id))>>,
            <<"website", PyStr(entry.website)>>,
            <<"source_url", PyStr(entry.source_url)>>,
            <<"scraped_at", PyTime(entry.scraped_at)>>,
            <<"data", PyData(entry.data)>>})

\* data["websites"][clean_website]
PyPartition(w) ==
    PyDict({<<"url", PyStr(w.url)>>,
            <<"last_scraped", PyTime(w.last_scraped)>>,
            <<"rental_count", PyInt(w.rental_count)>>})

\* the root as the Python value handed to save_data
ToPy(root) ==
    PyDict({<<"last_updated", PyTime(root.last_updated)>>,
            <<"rentals", PyDict({<<IdStr(root.rentals[i].id), PyEntry(root.rentals[i])>> :
                                    i \in 1..Len(root.rentals)})>>,
            <<"websites", PyDict({<<site, PyPartition(root.websites[site])>> :
                                     site \in DOMAIN root.websites})>>})

\* json.dump treating an int as text
RECURSIVE JsonDumpIntAsText(_)
JsonDumpIntAsText(p) ==
    CASE p.py = "none" -> [j |-> "null"]
      [] p.py = "int" -> [j |-> "string", v |-> IntStr(p.v)]
      [] p.py = "str" -> [j |-> "string", v |-> p.v]
      [] p.py = "dict" ->
            [j |-> "object", v |-> {<<kv[1], JsonDumpIntAsText(kv[2])>> : kv \in p.v}]

\* json.dump(data, f, indent=2, ensure_ascii=False): the JSON value written
RECURSIVE JsonDump(_)
JsonDump(p) ==
    CASE p.py = "none" -> [j |-> "null"]
      [] p.py = "int" -> [j |-> "number", v |-> p.v]
      [] p.py = "str" -> [j |-> "string", v |-> p.v]
      [] p.py = "dict" ->
            [j |-> "object", v |-> {<<kv[1], JsonDump(kv[2])>> : kv \in p.v}]

\* json.load(f): the Python value read
RECURSIVE JsonLoad(_)
JsonLoad(x) ==
    CASE x.j = "null" -> PyNone
      [] x.j = "number" -> PyInt(x.v)
      [] x.j = "string" -> PyStr(x.v)
      [] x.j = "object" -> PyDict({<<kv[1], JsonLoad(kv[2])>> : kv \in x.v})

\* Python's ==: values of different types are unequal, dicts are equal when
\* they hold equal values under the same keys
RECURSIVE PyEq(_, _)
PyEq(a, b) ==
    /\ a.py = b.py
    /\ CASE a.py = "none" -> TRUE
         [] a.py = "dict" ->
               /\ \A x \in a.v : \E y \in b.v : x[1] = y[1] /\ PyEq(x[2], y[2])
               /\ \A y \in b.v : \E x \in a.v : x[1] = y[1] /\ PyEq(x[2], y[2])
         [] OTHER -> a.v = b.v

(* ------------------------------ inputs --------------------------------- *)

\* the URLs callers pass, one per site
UrlS == <<"https://", "s", "/", "x">>
UrlT == <<"t">>
Urls == {UrlS, UrlT}

\* candidate records; addresses differ in case and whitespace
RecA == [address |-> <<"a", " ", "b">>, bedrooms |-> 2, bathrooms |-> 1,
         price |-> <<"$", "1">>]
\* RecA observed again: other casing, leading blank, new price
RecA2 == [address |-> <<" ", "A", " ", "B">>, bedrooms |-> 2, bathrooms |-> 1,
          price |-> <<"$", "2">>]
\* RecA's address with a doubled internal blank
RecAw == [address |-> <<"a", " ", " ", "b">>, bedrooms |-> 2, bathrooms |-> 1,
          price |-> <<"$", "1">>]
\* its description holds a character that UTF-8 encodes in two bytes
RecD == [address |-> <<"d">>, bedrooms |-> 3, bathrooms |-> 2,
         price |-> <<"$", "2">>, description |-> <<"d", "é">>]
\* a record without an address: identity falls back to the key fields
RecN == [bedrooms |-> 2, bathrooms |-> 1, price |-> <<"$", "3">>]
Records == {RecA, RecA2, RecAw, RecD, RecN}

RECURSIVE SeqsUpTo(_, _)
SeqsUpTo(S, n) ==
    IF n = 0 THEN {<<>>}
    ELSE SeqsUpTo(S, n - 1) \cup
         {Append(q, x) : q \in {w \in SeqsUpTo(S, n - 1) : Len(w) = n - 1}, x \in S}

\* what is observed on each site: site t only ever lists RecD
RecordsOf(u) == IF u = UrlT THEN {RecD} ELSE Records

BatchesS == SeqsUpTo(Records, MaxBatch)
BatchesT == SeqsUpTo({RecD}, MaxBatch)
Batches(u) == IF u = UrlT THEN BatchesT ELSE BatchesS

\* what is observed while writes fail and calls are killed
FailRecords == {RecA, RecA2, RecD}
FailBatches == SeqsUpTo(FailRecords, MaxBatch)

\* days_old arguments of clear_old_data
DaysOld == {0, 1}

\* the processes that run store operations
Procs == {1, 2}
\* the processes of the sequential specifications
SeqProcs == {1}

(* ------------------------------ state ---------------------------------- *)

VARIABLES
    file,      \* the root last written to db_file
    fstate,    \* "ok"; "corrupt": file is a truncated image; "missing";
               \* "undecodable": file is an image cut inside a character
    now,       \* datetime.now()
    pc,        \* per process: "idle" or the position inside sync_rentals
    sy,        \* per process: the locals of sync_rentals
    issued,    \* ids handed out to new listings so far
    sc,        \* the scraper run: position, accumulated listings, log, result
    reply,     \* what the webhook last answered
    ex,        \* the text block last handed to the field extractors and
               \* what each returned
    ag         \* the agents table and the outcome of the last register_agent

vars == <<file, fstate, now, pc, sy, issued, sc, reply, ex, ag>>

\* locals of a process that is not inside sync_rentals
NoSync == [website |-> <<>>, batch |-> <<>>, i |-> 0, data |-> EmptyRoot,
           existing |-> {}, processed |-> {}]

\* characters json.dump(.., ensure_ascii=False) writes as more than one byte
NonAscii == {"é"}

\* the JSON text of the root holds such a character
HasNonAscii(root) ==
    \E i \in 1..Len(root.rentals) :
       \E f \in DOMAIN root.rentals[i].data \ IntFields :
          \E k \in 1..Len(root.rentals[i].data[f]) :
             root.rentals[i].data[f][k] \in NonAscii

\* load_data, line 38: open(.., encoding='utf-8') and json.load raise
\* UnicodeDecodeError on a file cut inside a character; the except clause
\* of line 41 names FileNotFoundError and json.JSONDecodeError only
LoadRaises == fstate = "undecodable"

\* load_data when it returns: a missing or corrupt file reads as the empty
\* root
LoadData == IF fstate = "ok" THEN file ELSE EmptyRoot

\* outcomes of save_data: written; open() failed, file untouched;
\* interrupted after open(.., 'w') truncated the file, at a character
\* boundary or inside a character
SaveOutcomes == {"ok", "openfail", "partial", "midchar"}

\* save_data(data) with outcome o; the exception is swallowed. After an
\* interrupted write the file holds the beginning of data's JSON text.
SaveData(data, o) ==
    CASE o = "ok" -> file' = data /\ fstate' = "ok"
      [] o = "openfail" -> UNCHANGED <<file, fstate>>
      [] o = "partial" -> file' = data /\ fstate' = "corrupt"
      [] o = "midchar" -> HasNonAscii(data) /\ file' = data /\ fstate' = "undecodable"

AllIdle == \A p \in Procs : pc[p] = "idle"

\* how many records of the batch the loaded root has no match for
Unmatched(root, website, batch) ==
    Cardinality({i \in 1..Len(batch) :
        FindExistingRental(root, CleanWebsite(website), batch[i]) = 0})

\* no scraper has run
NoRun == [scraper |-> "none", pc |-> "idle", loaded |-> FALSE,
          rental_listings |-> <<>>, log |-> <<>>, deduped |-> FALSE,
          result |-> <<>>]

\* no text block has been extracted
NoExtraction == [done |-> FALSE, text |-> <<>>,
                 pw |-> [returned |-> FALSE, rec |-> <<>>],
                 lc |-> [returned |-> FALSE, rec |-> <<>>]]

\* the agents table is empty and register_agent has not been called
NoAgents == [rows |-> <<>>, call |-> <<>>, raised |-> "none"]

\* the webhook has answered nothing yet
NoReply == [website |-> <<>>, source |-> "none", n |-> 0]

Init ==
    /\ file = EmptyRoot
    /\ fstate = "ok"
    /\ now = 0
    /\ pc = [p \in Procs |-> "idle"]
    /\ sy = [p \in Procs |-> NoSync]
    /\ issued = {}
    /\ sc = NoRun
    /\ reply = NoReply
    /\ ex = NoExtraction
    /\ ag = NoAgents

(* ------------------------------ operations ----------------------------- *)

\* the clock advances between operations
Tick ==
    /\ AllIdle
    /\ now < MaxTime
    /\ now' = now + 1
    /\ UNCHANGED <<file, fstate, pc, sy>>

\* add_rental(website, rental_data) called on its own
Add(p, website, rental_data, o) ==
    /\ AllIdle
    /\ ~LoadRaises
    /\ Len(LoadData.rentals) + Unmatched(LoadData, website, <<rental_data>>) <= MaxRentals
    /\ LET res == AddRental(LoadData, website, rental_data, now)
       IN IF res.saves THEN SaveData(res.root, o) ELSE UNCHANGED <<file, fstate>>
    /\ UNCHANGED <<now, pc, sy>>

\* sync_rentals(website, current_rentals), run from call to return
Sync(p, website, batch) ==
    /\ AllIdle
    /\ ~LoadRaises
    /\ Len(LoadData.rentals) + Unmatched(LoadData, website, batch) <= MaxRentals
    /\ LET res == SyncRentals(LoadData, website, batch, now)
       IN /\ file' = res.root
          /\ fstate' = "ok"
    /\ UNCHANGED <<now, pc, sy>>

\* sync_rentals, lines 203-211: load, collect the existing rentals
SyncBegin(p, website, batch) ==
    /\ AllIdle
    /\ ~LoadRaises
    /\ Len(LoadData.rentals) + Unmatched(LoadData, website, batch) <= MaxRentals
    /\ pc' = [pc EXCEPT ![p] = "sync_add"]
    /\ sy' = [sy EXCEPT ![p] =
                [website |-> website, batch |-> batch, i |-> 1,
                 data |-> LoadData,
                 existing |-> IdsOfWebsite(LoadData.rentals, CleanWebsite(website)),
                 processed |-> {}]]
    /\ UNCHANGED <<file, fstate, now>>

\* sync_rentals, lines 214-217: one add_rental of the loop
SyncAdd(p, o) ==
    /\ pc[p] = "sync_add"
    /\ sy[p].i <= Len(sy[p].batch)
    /\ ~LoadRaises
    /\ LET res == AddRental(LoadData, sy[p].website, sy[p].batch[sy[p].i], now)
       IN /\ IF res.saves THEN SaveData(res.root, o) ELSE UNCHANGED <<file, fstate>>
          /\ sy' = [sy EXCEPT ![p].i = @ + 1,
                              ![p].processed = @ \cup {res.id}]
    /\ UNCHANGED <<now, pc>>

\* sync_rentals, line 215: load_data raises inside add_rental and the
\* exception leaves sync_rentals
SyncAddRaises(p) ==
    /\ pc[p] = "sync_add"
    /\ sy[p].i <= Len(sy[p].batch)
    /\ LoadRaises
    /\ pc' = [pc EXCEPT ![p] = "idle"]
    /\ sy' = [sy EXCEPT ![p] = NoSync]
    /\ UNCHANGED <<file, fstate, now>>

\* sync_rentals, lines 219-230: delete the unprocessed rentals from the
\* copy loaded at the start and save that copy
SyncFinish(p, o) ==
    /\ pc[p] = "sync_add"
    /\ sy[p].i > Len(sy[p].batch)
    /\ LET removed == sy[p].existing \ sy[p].processed
       IN IF removed # {}
          THEN SaveData([sy[p].data EXCEPT !.rentals = DelRentals(@, removed)], o)
          ELSE UNCHANGED <<file, fstate>>
    /\ pc' = [pc EXCEPT ![p] = "idle"]
    /\ sy' = [sy EXCEPT ![p] = NoSync]
    /\ UNCHANGED now

\* mark_updated()
MarkUpdated(p, o) ==
    /\ AllIdle
    /\ ~LoadRaises
    /\ SaveData([LoadData EXCEPT !.last_updated = now], o)
    /\ UNCHANGED <<now, pc, sy>>

\* clear_old_data(days_old)
ClearOldData(p, days_old, o) ==
    /\ AllIdle
    /\ ~LoadRaises
    /\ LET old == OldRentals(LoadData, days_old, now)
       IN IF old # {}
          THEN SaveData([LoadData EXCEPT !.rentals = DelRentals(@, old)], o)
          ELSE UNCHANGED <<file, fstate>>
    /\ UNCHANGED <<now, pc, sy>>

\* db_file is deleted from outside
RemoveFile ==
    /\ fstate # "missing"
    /\ file' = EmptyRoot
    /\ fstate' = "missing"
    /\ UNCHANGED <<now, pc, sy>>

\* the process is killed inside sync_rentals
Crash(p) ==
    /\ pc[p] # "idle"
    /\ pc' = [pc EXCEPT ![p] = "idle"]
    /\ sy' = [sy EXCEPT ![p] = NoSync]
    /\ UNCHANGED <<file, fstate, now>>

(* ------------------------------ two processes -------------------------- *)

\* Two processes share db_file: each load_data and each save_data is a step
\* of its own, and the steps of the two interleave.

\* the root on disk when the first of the running processes started; kept
\* with the locals of each process to compare the outcome with serial runs
RootAtStart(p) ==
    IF \A q \in Procs \ {p} : pc[q] = "idle"
    THEN LoadData
    ELSE sy[CHOOSE q \in Procs \ {p} : pc[q] # "idle"].root0

\* what add_rental holds between its load_data and its save_data
NoPending == [id |-> <<>>, saves |-> FALSE, created |-> FALSE, root |-> EmptyRoot]

\* sync_rentals, lines 203-211: load, collect the existing rentals
SyncLoad(p, website, batch) ==
    /\ pc[p] = "idle"
    /\ Len(LoadData.rentals) + Unmatched(LoadData, website, batch) <= MaxRentals
    /\ pc' = [pc EXCEPT ![p] = "add_load"]
    /\ sy' = [sy EXCEPT ![p] =
                [website |-> website, batch |-> batch, i |-> 1,
                 data |-> LoadData,
                 existing |-> IdsOfWebsite(LoadData.rentals, CleanWebsite(website)),
                 processed |-> {},
                 pending |-> NoPending,
                 root0 |-> RootAtStart(p)]]
    /\ UNCHANGED <<file, fstate, now>>

\* add_rental, lines 54-95: load_data and everything up to the save
AddLoad(p) ==
    /\ pc[p] = "add_load"
    /\ sy[p].i <= Len(sy[p].batch)
    /\ pc' = [pc EXCEPT ![p] = "add_save"]
    /\ sy' = [sy EXCEPT ![p].pending =
                AddRental(LoadData, sy[p].website, sy[p].batch[sy[p].i], now)]
    /\ UNCHANGED <<file, fstate, now>>

\* add_rental, lines 74-77 and 97-99: save_data when there is something to
\* save, and the return to the loop of sync_rentals
AddSave(p) ==
    /\ pc[p] = "add_save"
    /\ IF sy[p].pending.saves
       THEN file' = sy[p].pending.root /\ fstate' = "ok"
       ELSE UNCHANGED <<file, fstate>>
    /\ pc' = [pc EXCEPT ![p] = "add_load"]
    /\ sy' = [sy EXCEPT ![p].i = @ + 1,
                        ![p].processed = @ \cup {sy[p].pending.id},
                        ![p].pending = NoPending]
    /\ UNCHANGED now

\* sync_rentals, lines 219-230: delete the unprocessed rentals from the
\* copy loaded at the start, save that copy, return
SyncRemove(p) ==
    /\ pc[p] = "add_load"
    /\ sy[p].i > Len(sy[p].batch)
    /\ LET removed == sy[p].existing \ sy[p].processed
       IN IF removed # {}
          THEN /\ file' = [sy[p].data EXCEPT !.rentals = DelRentals(@, removed)]
               /\ fstate' = "ok"
          ELSE UNCHANGED <<file, fstate>>
    /\ pc' = [pc EXCEPT ![p] = "done"]
    /\ UNCHANGED <<sy, now>>

\* update_rental_database, line 257: mark_updated loads
MarkLoad(p, days_old) ==
    /\ pc[p] = "idle"
    /\ pc' = [pc EXCEPT ![p] = "mark_save"]
    /\ sy' = [sy EXCEPT ![p] =
                [data |-> LoadData, days_old |-> days_old, root0 |-> RootAtStart(p)]]
    /\ UNCHANGED <<file, fstate, now>>

\* mark_updated, lines 179-180: sets last_updated in its copy and saves it
MarkSave(p) ==
    /\ pc[p] = "mark_save"
    /\ file' = [sy[p].data EXCEPT !.last_updated = now]
    /\ fstate' = "ok"
    /\ pc' = [pc EXCEPT ![p] = "clear_load"]
    /\ UNCHANGED <<sy, now>>

\* update_rental_database, line 260: clear_old_data(days_old) loads
ClearLoad(p) ==
    /\ pc[p] = "clear_load"
    /\ pc' = [pc EXCEPT ![p] = "clear_save"]
    /\ sy' = [sy EXCEPT ![p].data = LoadData]
    /\ UNCHANGED <<file, fstate, now>>

\* clear_old_data, lines 188-199: deletes the old rentals from its copy and
\* saves it when there were any
ClearSave(p) ==
    /\ pc[p] = "clear_save"
    /\ LET old == OldRentals(sy[p].data, sy[p].days_old, now)
       IN IF old # {}
          THEN /\ file' = [sy[p].data EXCEPT !.rentals = DelRentals(@, old)]
               /\ fstate' = "ok"
          ELSE UNCHANGED <<file, fstate>>
    /\ pc' = [pc EXCEPT ![p] = "done"]
    /\ UNCHANGED <<sy, now>>

\* update_rental_database() run alone: mark_updated, then clear_old_data
UpdateRentalDatabase(root, days_old, t) ==
    LET marked == [root EXCEPT !.last_updated = t]
    IN [marked EXCEPT !.rentals = DelRentals(@, OldRentals(marked, days_old, t))]

(* ------------------------------ scrapers ------------------------------- *)

\* str.replace('\n', ' ')
ReplaceNewlines(s) == [i \in 1..Len(s) |-> IF s[i] = "\n" THEN " " ELSE s[i]]

\* f"{rental.get(key, '')}"
GetStr(rental, key) ==
    IF key \in DOMAIN rental THEN FieldStr(key, rental[key]) ELSE <<>>

\* rental.get(key, '').lower().replace('\n', ' ').strip()
Location(rental, key) ==
    IF key \in DOMAIN rental
    THEN Strip(ReplaceNewlines(Lower(rental[key])))
    ELSE <<>>

\* f"{location}|{price}|{beds}|{baths}"
Identifier(rental, key) ==
    Location(rental, key) \o <<"|">> \o GetStr(rental, "price") \o <<"|">>
       \o GetStr(rental, "bedrooms") \o <<"|">> \o GetStr(rental, "bathrooms")

\* the loop of _deduplicate_rentals with its seen_identifiers
RECURSIVE DedupLoop(_, _, _)
DedupLoop(rentals, key, seen) ==
    IF rentals = <<>> THEN <<>>
    ELSE LET rental == Head(rentals)
         IN IF Location(rental, key) = <<>> /\ GetStr(rental, "price") = <<>>
            THEN DedupLoop(Tail(rentals), key, seen)
            ELSE IF Identifier(rental, key) \notin seen
            THEN <<rental>> \o DedupLoop(Tail(rentals), key,
                                          seen \cup {Identifier(rental, key)})
            ELSE DedupLoop(Tail(rentals), key, seen)

\* _deduplicate_rentals; the location is read from rental[key]:
\* 'address' in langchain_rental_scraper, 'location' in playwright_scraper
DeduplicateRentals(rentals, key) == DedupLoop(rentals, key, {})

\* records as _extract_rental_details builds them: a location, no address
RecL == [location |-> <<"a", "\n", "B">>, bedrooms |-> 2, bathrooms |-> 1,
         price |-> <<"$", "1">>]
\* the same location in other casing and spacing, same price
RecL1 == [location |-> <<" ", "A", " ", "b">>, bedrooms |-> 2, bathrooms |-> 1,
          price |-> <<"$", "1">>]
\* another location and price, same bedrooms and bathrooms
RecL2 == [location |-> <<"c">>, bedrooms |-> 2, bathrooms |-> 1,
          price |-> <<"$", "2">>]
\* a title and a bedroom count: neither location nor price
RecT == [title |-> <<"t">>, bedrooms |-> 2]

\* what one strategy of a scraper finds on a page: it raised inside (and
\* returned []), or it returned a list
Found(lists) ==
    {[error |-> TRUE, listings |-> <<>>]} \cup
    {[error |-> FALSE, listings |-> l] : l \in lists}

PwYields == Found({<<>>, <<RecL>>, <<RecL, RecL1>>, <<RecL, RecL2>>, <<RecT>>})
LcYields == {[error |-> FALSE, listings |-> l] :
                l \in {<<>>, <<RecA>>, <<RecA, RecA>>, <<RecA, RecA2>>, <<RecN>>}}

\* what rental_parser.ainvoke answers: a list; a string holding a JSON list;
\* anything else that is not a list; an exception
LlmLists == {<<>>, <<RecA>>, <<RecA, RecD>>}
LlmResponses ==
    {[kind |-> k, rentals |-> l] : k \in {"list", "str_list"}, l \in LlmLists}
    \cup {[kind |-> k, rentals |-> <<>>] : k \in {"other", "error"}}

\* a new run starts when none is in progress
CanStart == sc.pc \in {"idle", "done"}

\* one entry of the log: the strategy invoked and what it gave
LogEntry(strategy, y) ==
    [strategy |-> strategy, n |-> Len(y.listings), error |-> y.error]

\* the order of the strategies in scrape_rental_website
PwAfter(s) ==
    CASE s = "s1" -> "s2"
      [] s = "s2" -> "s3"
      [] s = "s3" -> "s4"
      [] s = "s4" -> "dedup"

\* scrape_rental_website, lines 46-56: page.goto; when it raises the outer
\* except returns []
PwStart(ok) ==
    /\ CanStart
    /\ sc' = IF ok
             THEN [NoRun EXCEPT !.scraper = "playwright", !.pc = "s1", !.loaded = TRUE]
             ELSE [NoRun EXCEPT !.scraper = "playwright", !.pc = "done"]
    /\ UNCHANGED <<file, fstate, now, pc, sy, issued, reply, ex, ag>>

\* scrape_rental_website, lines 58-71: strategy 1, and each later strategy
\* under `if not rental_listings`
PwInvoke(y) ==
    /\ sc.scraper = "playwright"
    /\ sc.pc \in {"s1", "s2", "s3", "s4"}
    /\ sc.pc = "s1" \/ sc.rental_listings = <<>>
    /\ sc' = [sc EXCEPT !.rental_listings = @ \o y.listings,
                        !.log = Append(@, LogEntry(sc.pc, y)),
                        !.pc = PwAfter(sc.pc)]
    /\ UNCHANGED <<file, fstate, now, pc, sy, issued, reply, ex, ag>>

\* a later strategy whose `if not rental_listings` is false
PwSkip ==
    /\ sc.scraper = "playwright"
    /\ sc.pc \in {"s2", "s3", "s4"}
    /\ sc.rental_listings # <<>>
    /\ sc' = [sc EXCEPT !.pc = PwAfter(sc.pc)]
    /\ UNCHANGED <<file, fstate, now, pc, sy, issued, reply, ex, ag>>

\* scrape_rental_website, lines 73-76: deduplicate and return
PwReturn ==
    /\ sc.scraper = "playwright"
    /\ sc.pc = "dedup"
    /\ sc' = [sc EXCEPT !.result = DeduplicateRentals(sc.rental_listings, "location"),
                        !.deduped = TRUE,
                        !.pc = "done"]
    /\ UNCHANGED <<file, fstate, now, pc, sy, issued, reply, ex, ag>>

\* scrape_rentals, lines 135-157: initialize, page.goto, text_content; when
\* one raises the outer except returns []. Then the branch on rental_parser.
LcStart(ok, configured) ==
    /\ CanStart
    /\ sc' = IF ok
             THEN [NoRun EXCEPT !.scraper = "langchain", !.loaded = TRUE,
                                !.pc = IF configured THEN "llm" ELSE "patterns"]
             ELSE [NoRun EXCEPT !.scraper = "langchain", !.pc = "done"]
    /\ UNCHANGED <<file, fstate, now, pc, sy, issued, reply, ex, ag>>

\* scrape_rentals, lines 157-184: the LLM agent and what is done with its
\* answer
LcLlm(resp) ==
    /\ sc.scraper = "langchain"
    /\ sc.pc = "llm"
    /\ LET entry == [strategy |-> "llm", n |-> Len(resp.rentals),
                     error |-> resp.kind \in {"other", "error"}]
       IN sc' = IF resp.kind = "error"
                THEN [sc EXCEPT !.log = Append(@, entry), !.pc = "patterns"]
                ELSE [sc EXCEPT !.log = Append(@, entry), !.pc = "done",
                                !.result = resp.rentals]
    /\ UNCHANGED <<file, fstate, now, pc, sy, issued, reply, ex, ag>>

\* _extract_rentals_from_text, lines 221-227: the loop over rental_patterns
LcPatterns(y) ==
    /\ sc.scraper = "langchain"
    /\ sc.pc = "patterns"
    /\ sc' = [sc EXCEPT !.rental_listings = @ \o y.listings,
                        !.log = Append(@, LogEntry("patterns", y)),
                        !.pc = "sections"]
    /\ UNCHANGED <<file, fstate, now, pc, sy, issued, reply, ex, ag>>

\* _extract_rentals_from_text, lines 230-236: the sections split on blank
\* lines, appended to what the patterns gave
LcSections(y) ==
    /\ sc.scraper = "langchain"
    /\ sc.pc = "sections"
    /\ sc' = [sc EXCEPT !.rental_listings = @ \o y.listings,
                        !.log = Append(@, LogEntry("sections", y)),
                        !.pc = "dedup"]
    /\ UNCHANGED <<file, fstate, now, pc, sy, issued, reply, ex, ag>>

\* _extract_rentals_from_text, lines 244-246: an exception anywhere in the
\* function returns []
LcTextError ==
    /\ sc.scraper = "langchain"
    /\ sc.pc \in {"patterns", "sections"}
    /\ sc' = [sc EXCEPT !.log = Append(@, [strategy |-> sc.pc, n |-> 0, error |-> TRUE]),
                        !.pc = "done",
                        !.result = <<>>]
    /\ UNCHANGED <<file, fstate, now, pc, sy, issued, reply, ex, ag>>

\* _extract_rentals_from_text, lines 238-242: deduplicate and return
LcReturn ==
    /\ sc.scraper = "langchain"
    /\ sc.pc = "dedup"
    /\ sc' = [sc EXCEPT !.result = DeduplicateRentals(sc.rental_listings, "address"),
                        !.deduped = TRUE,
                        !.pc = "done"]
    /\ UNCHANGED <<file, fstate, now, pc, sy, issued, reply, ex, ag>>

\* vapi_webhook, lines 939-996: what the answer says about the scrape. An
\* exception of the scraper is caught at line 955 and leaves
\* detailed_listings empty.
Surfaced(detailed_listings) ==
    IF detailed_listings # <<>> THEN "detailed information" ELSE "could not extract"

(* ------------------------------ field extraction ----------------------- *)

\* a text block is a sequence of phrases, joined by blanks
PListing == "1000 Rambling Oaks $1200 2 Bed 1 Bath 900 sq ft."
PDate == "Available July 15."
PImmediate == "Immediate move in."
PNow == "Move in now."
PSignIn == "Resident Sign In"
PThis == "This home is bright."
Phrases == {PListing, PDate, PImmediate, PNow, PSignIn, PThis}

\* len(phrase)
PhraseLen(ph) ==
    CASE ph = PListing -> 48
      [] ph = PDate -> 18
      [] ph = PImmediate -> 18
      [] ph = PNow -> 12
      [] ph = PSignIn -> 16
      [] ph = PThis -> 20

\* len(text)
RECURSIVE TextLen(_)
TextLen(text) ==
    IF text = <<>> THEN 0
    ELSE PhraseLen(Head(text)) + (IF Len(text) > 1 THEN 1 ELSE 0) + TextLen(Tail(text))

\* the phrase ends a sentence
EndsWithDot(ph) == ph # PSignIn

\* needle in text.lower()
InLower(needle, text) ==
    \E i \in 1..Len(text) :
       CASE needle = "immediate" -> text[i] = PImmediate
         [] needle = "now" -> text[i] = PNow
         [] needle = "resident sign in" -> text[i] = PSignIn
         [] needle = "available" -> text[i] = PDate
         [] needle = "bed" -> text[i] = PListing
         [] OTHER -> FALSE

\* the availability patterns: group(1) of the first match, <<>> for no match
DatePattern(text) ==
    IF \E i \in 1..Len(text) : text[i] = PDate THEN <<"July 15">> ELSE <<>>

\* re.search(r'\$([\d,]+)', text)
PricePattern(text) ==
    IF \E i \in 1..Len(text) : text[i] = PListing THEN <<"$1200">> ELSE <<>>

\* a field that is set when its pattern matched
FieldOf(name, match) == IF match = <<>> THEN <<>> ELSE name :> match[1]

\* desc_patterns[0], (?:This|Newly remodeled|Available)[^\.]+\. : the
\* phrases of the first match, <<>> for no match
FirstDescPattern(text) ==
    LET starts == {i \in 1..Len(text) :
                      /\ text[i] \in {PDate, PThis}
                      /\ \E j \in i..Len(text) : EndsWithDot(text[j])}
        i == CHOOSE k \in starts : \A m \in starts : k <= m
        j == CHOOSE k \in i..Len(text) :
                /\ EndsWithDot(text[k])
                /\ \A m \in i..(k - 1) : ~EndsWithDot(text[m])
    IN IF starts = {} THEN <<>> ELSE SubSeq(text, i, j)

\* text.split('.'): the sentence that holds position i
SentenceOf(text, i) ==
    LET from == CHOOSE a \in 1..i :
                   /\ \A m \in a..(i - 1) : ~EndsWithDot(text[m])
                   /\ a = 1 \/ EndsWithDot(text[a - 1])
        to == IF \E b \in i..Len(text) : EndsWithDot(text[b])
              THEN CHOOSE b \in i..Len(text) :
                      EndsWithDot(text[b]) /\ \A m \in i..(b - 1) : ~EndsWithDot(text[m])
              ELSE Len(text)
    IN SubSeq(text, from, to)

\* _create_clean_description(text): the phrases the description is made of
CreateCleanDescription(text) ==
    LET keyed == {i \in 1..Len(text) : text[i] = PListing}
        first == CHOOSE k \in keyed : \A m \in keyed : k <= m
    IN IF FirstDescPattern(text) # <<>> THEN FirstDescPattern(text)
       ELSE IF keyed # {} THEN SentenceOf(text, first)
       ELSE text

\* the keywords of line 318 found in description.lower()
BoilerplateKeywords == {"resident sign in"}

\* _extract_single_rental(text): {} is returned |-> FALSE
ExtractSingleRental(text) ==
    LET description == CreateCleanDescription(text)
        rental == FieldOf("price", PricePattern(text))
                  @@ FieldOf("available_date", DatePattern(text))
                  @@ ("description" :> description)
    IN IF \E keyword \in BoilerplateKeywords : InLower(keyword, description)
       THEN [returned |-> FALSE, rec |-> <<>>]
       ELSE [returned |-> TRUE, rec |-> rental]

\* _extract_rental_details(element): None is returned |-> FALSE
ExtractRentalDetails(text) ==
    IF TextLen(text) < 50
    THEN [returned |-> FALSE, rec |-> <<>>]
    ELSE [returned |-> TRUE,
          rec |-> FieldOf("price", PricePattern(text))
                  @@ (IF InLower("immediate", text) \/ InLower("now", text)
                      THEN "available_date" :> "Immediate"
                      ELSE FieldOf("available_date", DatePattern(text)))
                  @@ ("description" :> text)]

\* longest text block, in phrases
MaxText == 3

Texts == UNION {[1..n -> Phrases] : n \in 1..MaxText}

\* both field extractors are run on one text block
Extract(text) ==
    /\ ex' = [done |-> TRUE, text |-> text,
              pw |-> ExtractRentalDetails(text),
              lc |-> ExtractSingleRental(text)]
    /\ UNCHANGED <<file, fstate, now, pc, sy, issued, sc, reply, ag>>

(* ------------------------------ agents --------------------------------- *)

\* most rows the agents table is let to hold
MaxAgents == 3

\* VAPI assistant ids as their '-' separated parts; two share the first part
VapiIds == {<<"a", "1">>, <<"a", "2">>, <<"b", "1">>}
AgentNames == {"n1", "n2"}

\* f"agent_{agent_data.vapi_assistant_id.split('-')[0]}"
AgentIdOf(vapi_assistant_id) == <<"agent_", vapi_assistant_id[1]>>

\* a lookup that finds no agent
GetByVapiIdNone(rows, vapi_assistant_id) == 0

\* get_by_vapi_id: SELECT * FROM agents WHERE vapi_assistant_id = $1, as the
\* index of the row, 0 for None
GetByVapiId(rows, vapi_assistant_id) ==
    LET hits == {i \in 1..Len(rows) : rows[i].vapi_assistant_id = vapi_assistant_id}
    IN IF hits = {} THEN 0 ELSE CHOOSE i \in hits : \A j \in hits : i <= j

\* AgentRepository.create: the INSERT of a row whose agent_id or
\* vapi_assistant_id is already in the table is accepted or raises, as the
\* table's constraints decide
InsertOutcomes == {"inserted", "raised"}

\* register_agent(vapi_assistant_id, agent_name) on the table, the INSERT
\* having outcome o when the new row collides with a stored one
RegisterAgentResult(rows, vapi_assistant_id, agent_name, o) ==
    LET existing == GetByVapiId(rows, vapi_assistant_id)
        row == [agent_id |-> AgentIdOf(vapi_assistant_id),
                vapi_assistant_id |-> vapi_assistant_id,
                agent_name |-> agent_name,
                is_active |-> TRUE]
        collides == \E i \in 1..Len(rows) :
                       \/ rows[i].agent_id = row.agent_id
                       \/ rows[i].vapi_assistant_id = vapi_assistant_id
    IN IF existing # 0
       THEN [rows |-> rows, call |-> vapi_assistant_id, raised |-> "ValueError"]
       ELSE IF collides /\ o = "raised"
       THEN [rows |-> rows, call |-> vapi_assistant_id, raised |-> "Exception"]
       ELSE [rows |-> Append(rows, row), call |-> vapi_assistant_id, raised |-> "none"]

\* one call of register_agent
RegisterAgent(vapi_assistant_id, agent_name, o) ==
    /\ GetByVapiId(ag.rows, vapi_assistant_id) # 0 \/ Len(ag.rows) < MaxAgents
    /\ ag' = RegisterAgentResult(ag.rows, vapi_assistant_id, agent_name, o)
    /\ UNCHANGED <<file, fstate, now, pc, sy, issued, sc, reply, ex>>

\* DELETE FROM agents WHERE agent_id = $1
RECURSIVE DeleteRows(_, _)
DeleteRows(rows, agent_id) ==
    IF rows = <<>> THEN <<>>
    ELSE IF Head(rows).agent_id = agent_id THEN DeleteRows(Tail(rows), agent_id)
    ELSE <<Head(rows)>> \o DeleteRows(Tail(rows), agent_id)

\* AgentRepository.delete(agent_id), as the cleanup of the test calls it
DeleteAgent(agent_id) ==
    /\ \E i \in 1..Len(ag.rows) : ag.rows[i].agent_id = agent_id
    /\ ag' = [rows |-> DeleteRows(ag.rows, agent_id), call |-> <<>>, raised |-> "none"]
    /\ UNCHANGED <<file, fstate, now, pc, sy, issued, sc, reply, ex>>

(* ------------------------------ webhook -------------------------------- *)

\* is_update_needed() with >= for >
IsUpdateNeededAtInterval(root, t) ==
    IF root.last_updated = None THEN TRUE
    ELSE t - root.last_updated >= UpdateInterval

\* is_update_needed() read at time t
IsUpdateNeeded(root, t) ==
    IF root.last_updated = None THEN TRUE
    ELSE t - root.last_updated > UpdateInterval

\* get_rentals_for_website(website)
GetRentalsForWebsite(root, website) ==
    SelectSeq(root.rentals, LAMBDA rental : rental.website = CleanWebsite(website))

\* a day passes
Elapse ==
    /\ AllIdle
    /\ now < MaxClock
    /\ now' = now + 1
    /\ UNCHANGED <<file, fstate, pc, sy>>

\* vapi_webhook, the website search: stored rentals are returned as they
\* are; otherwise the site is searched (found: the search had results) and
\* scraped (detailed_listings), and what was scraped is synced and the
\* database marked as updated
Webhook(p, website, found, detailed_listings) ==
    /\ AllIdle
    /\ ~LoadRaises
    /\ Len(LoadData.rentals) + Unmatched(LoadData, website, detailed_listings) <= MaxRentals
    /\ LET stored == GetRentalsForWebsite(LoadData, website)
           synced == SyncRentals(LoadData, website, detailed_listings, now).root
       IN IF stored # <<>>
          THEN /\ reply' = [website |-> website, source |-> "database", n |-> Len(stored)]
               /\ UNCHANGED <<file, fstate>>
          ELSE IF found /\ detailed_listings # <<>>
          THEN /\ reply' = [website |-> website, source |-> "scrape",
                            n |-> Len(detailed_listings)]
               /\ file' = [synced EXCEPT !.last_updated = now]
               /\ fstate' = "ok"
          ELSE /\ reply' = [website |-> website,
                            source |-> IF found THEN "search" ELSE "none", n |-> 0]
               /\ UNCHANGED <<file, fstate>>
    /\ UNCHANGED <<now, pc, sy>>

(* ------------------------------ specifications ------------------------- *)

\* the ids one add_rental / one sync_rentals hands to new listings
AddCreated(website, rental_data) ==
    LET res == AddRental(LoadData, website, rental_data, now)
    IN IF res.created THEN {res.id} ELSE {}

SyncCreated(website, batch) == SyncRentals(LoadData, website, batch, now).created

\* one caller, every write succeeds, each operation runs from call to return
Next ==
    \/ Tick /\ UNCHANGED <<issued, sc, reply, ex, ag>>
    \/ \E p \in SeqProcs, u \in Urls : \E r \in RecordsOf(u) :
          Add(p, u, r, "ok") /\ UNCHANGED <<issued, sc, reply, ex, ag>>
    \/ \E p \in SeqProcs, u \in Urls : \E b \in Batches(u) :
          Sync(p, u, b) /\ UNCHANGED <<issued, sc, reply, ex, ag>>
    \/ \E p \in SeqProcs : MarkUpdated(p, "ok") /\ UNCHANGED <<issued, sc, reply, ex, ag>>
    \/ \E p \in SeqProcs, d \in DaysOld : ClearOldData(p, d, "ok") /\ UNCHANGED <<issued, sc, reply, ex, ag>>

Spec == Init /\ [][Next]_vars

\* as Spec on site s, recording every id handed out
NextIds ==
    \/ Tick /\ UNCHANGED <<issued, sc, reply, ex, ag>>
    \/ \E p \in SeqProcs, r \in Records :
          Add(p, UrlS, r, "ok") /\ issued' = issued \cup AddCreated(UrlS, r)
             /\ UNCHANGED <<sc, reply, ex, ag>>
    \/ \E p \in SeqProcs, b \in BatchesS :
          Sync(p, UrlS, b) /\ issued' = issued \cup SyncCreated(UrlS, b)
             /\ UNCHANGED <<sc, reply, ex, ag>>
    \/ \E p \in SeqProcs, d \in DaysOld : ClearOldData(p, d, "ok") /\ UNCHANGED <<issued, sc, reply, ex, ag>>

SpecIds == Init /\ [][NextIds]_vars

\* one caller on site s, sync_rentals taken one add_rental at a time; writes
\* may fail and sync_rentals may be killed
NextFail ==
    \/ Tick /\ UNCHANGED <<issued, sc, reply, ex, ag>>
    \/ \E p \in SeqProcs, r \in FailRecords, o \in SaveOutcomes :
          Add(p, UrlS, r, o) /\ UNCHANGED <<issued, sc, reply, ex, ag>>
    \/ \E p \in SeqProcs, b \in FailBatches : SyncBegin(p, UrlS, b) /\ UNCHANGED <<issued, sc, reply, ex, ag>>
    \/ \E p \in SeqProcs, o \in SaveOutcomes : SyncAdd(p, o) /\ UNCHANGED <<issued, sc, reply, ex, ag>>
    \/ \E p \in SeqProcs, o \in SaveOutcomes : SyncFinish(p, o) /\ UNCHANGED <<issued, sc, reply, ex, ag>>
    \/ \E p \in SeqProcs, o \in SaveOutcomes : MarkUpdated(p, o) /\ UNCHANGED <<issued, sc, reply, ex, ag>>
    \/ \E p \in SeqProcs, d \in DaysOld, o \in SaveOutcomes :
          ClearOldData(p, d, o) /\ UNCHANGED <<issued, sc, reply, ex, ag>>
    \/ \E p \in SeqProcs : SyncAddRaises(p) /\ UNCHANGED <<issued, sc, reply, ex, ag>>
    \/ \E p \in SeqProcs : Crash(p) /\ UNCHANGED <<issued, sc, reply, ex, ag>>
    \/ RemoveFile /\ UNCHANGED <<issued, sc, reply, ex, ag>>

SpecFail == Init /\ [][NextFail]_vars

\* the two scrapers, one run after another
NextChain ==
    \/ \E ok \in BOOLEAN : PwStart(ok)
    \/ \E y \in PwYields : PwInvoke(y)
    \/ PwSkip
    \/ PwReturn
    \/ \E ok \in BOOLEAN, configured \in BOOLEAN : LcStart(ok, configured)
    \/ \E resp \in LlmResponses : LcLlm(resp)
    \/ \E y \in LcYields : LcPatterns(y)
    \/ \E y \in LcYields : LcSections(y)
    \/ LcTextError
    \/ LcReturn

SpecChain == Init /\ [][NextChain]_vars


\* the webhook answering queries while days pass, the daily job marking the
\* database as updated and old data being cleared
NextWeb ==
    \/ Elapse /\ UNCHANGED <<issued, sc, reply, ex, ag>>
    \/ \E p \in SeqProcs, u \in Urls, found \in BOOLEAN : \E b \in Batches(u) :
          Webhook(p, u, found, b) /\ UNCHANGED <<issued, sc, ex, ag>>
    \/ \E p \in SeqProcs : MarkUpdated(p, "ok") /\ UNCHANGED <<issued, sc, reply, ex, ag>>
    \/ \E p \in SeqProcs, d \in DaysOld : ClearOldData(p, d, "ok") /\ UNCHANGED <<issued, sc, reply, ex, ag>>

SpecWeb == Init /\ [][NextWeb]_vars

\* text blocks handed to the field extractors
NextExtract == \E text \in Texts : Extract(text)

SpecExtract == Init /\ [][NextExtract]_vars

\* register_agent called again and again
NextAgents ==
    \/ \E v \in VapiIds, n \in AgentNames, o \in InsertOutcomes : RegisterAgent(v, n, o)
    \/ \E v \in VapiIds : DeleteAgent(AgentIdOf(v))

SpecAgents == Init /\ [][NextAgents]_vars

\* records of the runs with two processes
ConcRecords == {RecA, RecD}
ConcBatches(u) == SeqsUpTo(ConcRecords \cap RecordsOf(u), MaxBatch)

\* a store is built by one caller; then process 1 syncs site s and process 2
\* syncs site t, step by step and interleaved
NextConc ==
    \/ \E u \in Urls : \E r \in ConcRecords \cap RecordsOf(u) :
          Add(1, u, r, "ok") /\ UNCHANGED <<issued, sc, reply, ex, ag>>
    \/ \E b \in ConcBatches(UrlS) : SyncLoad(1, UrlS, b) /\ UNCHANGED <<issued, sc, reply, ex, ag>>
    \/ \E b \in ConcBatches(UrlT) : SyncLoad(2, UrlT, b) /\ UNCHANGED <<issued, sc, reply, ex, ag>>
    \/ \E p \in Procs : AddLoad(p) /\ UNCHANGED <<issued, sc, reply, ex, ag>>
    \/ \E p \in Procs : AddSave(p) /\ UNCHANGED <<issued, sc, reply, ex, ag>>
    \/ \E p \in Procs : SyncRemove(p) /\ UNCHANGED <<issued, sc, reply, ex, ag>>

SpecConc == Init /\ [][NextConc]_vars

\* a store is built by one caller while time passes; then process 1 syncs
\* site s and process 2, the scheduler, runs update_rental_database
NextHouse ==
    \/ Tick /\ UNCHANGED <<issued, sc, reply, ex, ag>>
    \/ \E r \in ConcRecords : Add(1, UrlS, r, "ok") /\ UNCHANGED <<issued, sc, reply, ex, ag>>
    \/ \E b \in ConcBatches(UrlS) : SyncLoad(1, UrlS, b) /\ UNCHANGED <<issued, sc, reply, ex, ag>>
    \/ AddLoad(1) /\ UNCHANGED <<issued, sc, reply, ex, ag>>
    \/ AddSave(1) /\ UNCHANGED <<issued, sc, reply, ex, ag>>
    \/ SyncRemove(1) /\ UNCHANGED <<issued, sc, reply, ex, ag>>
    \/ \E d \in DaysOld : MarkLoad(2, d) /\ UNCHANGED <<issued, sc, reply, ex, ag>>
    \/ MarkSave(2) /\ UNCHANGED <<issued, sc, reply, ex, ag>>
    \/ ClearLoad(2) /\ UNCHANGED <<issued, sc, reply, ex, ag>>
    \/ ClearSave(2) /\ UNCHANGED <<issued, sc, reply, ex, ag>>

SpecHouse == Init /\ [][NextHouse]_vars

(* ------------------------------ claims --------------------------------- *)

\* the stored listings of one site
ListingsOf(root, site) ==
    {root.rentals[i] : i \in {j \in 1..Len(root.rentals) : root.rentals[j].website = site}}

\* some record of the batch has the identity of the listing
Observed(entry, batch) ==
    \E i \in 1..Len(batch) : IsSameRental(entry.data, batch[i])

\* C1. Idempotent sync (state): once sync(site, B) has completed, running
\* sync(site, B) again at once leaves the stored listings exactly as the first
\* call left them.
IdempotentSyncState ==
    [][\A u \in Urls : \A b \in Batches(u) :
          Sync(1, u, b) =>
             SyncRentals(LoadData', u, b, now').root.rentals = LoadData'.rentals]_vars

\* C2. Removal correctness: after sync(site, B) no listing that was stored for
\* the site before the call and is observed by no record of B is still stored.
RemovalCorrectness ==
    [][\A u \in Urls : \A b \in Batches(u) :
          Sync(1, u, b) =>
             \A e \in ListingsOf(LoadData, CleanWebsite(u)) :
                ~Observed(e, b) =>
                   ~\E x \in ListingsOf(LoadData', CleanWebsite(u)) :
                       x.id = e.id /\ x.data = e.data]_vars

\* C3. Unseen records are added: after sync(site, B) every record of B has a
\* stored listing of the site with its identity.
UnseenRecordsAdded ==
    [][\A u \in Urls : \A b \in Batches(u) :
          Sync(1, u, b) =>
             \A i \in 1..Len(b) :
                FindExistingRental(LoadData', CleanWebsite(u), b[i]) # 0]_vars

\* C4. Changed records are updated in place: when the only record of B that
\* matches a stored listing differs from it in a tracked field, then after
\* sync(site, B) the listing holds the observed record, its scraped_at is the
\* time of the call and its id is the same.
ChangedRecordsUpdated ==
    [][\A u \in Urls : \A b \in Batches(u) :
          Sync(1, u, b) =>
             \A i \in 1..Len(b) :
                LET k == FindExistingRental(LoadData, CleanWebsite(u), b[i])
                IN (/\ k # 0
                    /\ HasDataChanged(LoadData.rentals[k].data, b[i])
                    /\ \A j \in 1..Len(b) :
                          j # i => ~IsSameRental(LoadData.rentals[k].data, b[j]))
                   => \E x \in ListingsOf(LoadData', CleanWebsite(u)) :
                         /\ x.id = LoadData.rentals[k].id
                         /\ x.data = b[i]
                         /\ x.scraped_at = now]_vars

\* runs of blanks inside an address collapsed to one blank
RECURSIVE CollapseBlanks(_)
CollapseBlanks(s) ==
    IF Len(s) < 2 THEN s
    ELSE IF s[1] \in Whitespace /\ s[2] \in Whitespace THEN CollapseBlanks(Tail(s))
    ELSE <<s[1]>> \o CollapseBlanks(Tail(s))

\* an address lower-cased, trimmed, internal whitespace normalized
NormalizedAddress(a) == CollapseBlanks(Strip(Lower(a)))

\* C5. Identity stability: records of one site whose addresses are equal after
\* lower-casing, trimming and normalizing internal whitespace collapse to one
\* stored listing, so no two stored listings of a site have such addresses.
IdentityStability ==
    \A i, j \in 1..Len(LoadData.rentals) :
       LET x == LoadData.rentals[i]
           y == LoadData.rentals[j]
       IN (/\ i # j
           /\ x.website = y.website
           /\ "address" \in DOMAIN x.data
           /\ "address" \in DOMAIN y.data)
          => NormalizedAddress(x.data.address) # NormalizedAddress(y.data.address)

\* C6. Between operations each site's rental_count equals the number of stored
\* listings of that site.
ListingCountExact ==
    \A site \in DOMAIN LoadData.websites :
       LoadData.websites[site].rental_count = CountOfWebsite(LoadData.rentals, site)

IdsNeverReused ==
    [][/\ \A r \in Records :
             Add(1, UrlS, r, "ok") => AddCreated(UrlS, r) \cap issued = {}
       /\ \A b \in BatchesS :
             Sync(1, UrlS, b) => SyncCreated(UrlS, b) \cap issued = {}]_vars

\* C9. No partial sync commit is visible: when sync(site, B) is killed the
\* file holds either the root the call loaded or the root the completed call
\* leaves.
NoPartialSync ==
    [][\A p \in SeqProcs :
          Crash(p) =>
             LoadData' \in {sy[p].data,
                            SyncRentals(sy[p].data, sy[p].website, sy[p].batch, now).root}]_vars

\* a step of a mutating operation whose save_data ends with outcome o
WriteStep(o) ==
    \/ \E r \in FailRecords : Add(1, UrlS, r, o)
    \/ SyncAdd(1, o)
    \/ SyncFinish(1, o)
    \/ MarkUpdated(1, o)
    \/ \E d \in DaysOld : ClearOldData(1, d, o)

\* C10. Mutating operations are atomic on the file: after a write that failed
\* load_data returns the complete prior root.
FailedWriteKeepsPrior ==
    [][\A o \in SaveOutcomes \ {"ok"} : WriteStep(o) => LoadData' = LoadData]_vars

\* C11. Idempotent sync (result): once sync(site, B) has completed, running
\* sync(site, B) again at once returns (0, 0): zero updates, zero removals.
IdempotentSyncResult ==
    [][\A u \in Urls : \A b \in Batches(u) :
          Sync(1, u, b) =>
             SyncRentals(LoadData', u, b, now').ret = <<0, 0>>]_vars

\* C12. Retry recovers from any failure: when sync(site, B) is killed at any
\* point and sync(site, B) is then run again from scratch to completion, the
\* listings stored for the site are those one uninterrupted sync(site, B) from
\* the pre-sync root leaves.
RetryRecovers ==
    [][\A p \in SeqProcs :
          Crash(p) =>
             ListingsOf(SyncRentals(LoadData', sy[p].website, sy[p].batch, now).root,
                        CleanWebsite(sy[p].website))
             = ListingsOf(SyncRentals(sy[p].data, sy[p].website, sy[p].batch, now).root,
                          CleanWebsite(sy[p].website))]_vars

\* the strategies a scraper has after the page is loaded
StrategiesOf(scraper) ==
    IF scraper = "playwright" THEN {"s1", "s2", "s3", "s4"}
    ELSE {"patterns", "sections"}

\* C13. Chain short-circuit: within one acquisition run a strategy is invoked
\* only when every strategy invoked before it yielded zero records, so the
\* result never combines the records of two strategies.
ChainShortCircuit ==
    \A i, j \in 1..Len(sc.log) : i < j => sc.log[i].n = 0

\* C14. When the AI-assisted strategy is not configured, answers something
\* that is not a list, or raises, the pattern strategies run next on the same
\* page text and the run does not end there.
LlmFailureFallsBack ==
    [][/\ LcStart(TRUE, FALSE) => sc'.pc = "patterns"
       /\ \A resp \in LlmResponses :
             (resp.kind \in {"other", "error"} /\ LcLlm(resp)) => sc'.pc = "patterns"]_vars

\* C15. A run on a loaded page returns an empty result only when every
\* strategy of the scraper has been tried and each gave zero records.
EmptyOnlyWhenExhausted ==
    (sc.pc = "done" /\ sc.loaded /\ sc.result = <<>>)
    => /\ StrategiesOf(sc.scraper) \subseteq {sc.log[i].strategy : i \in 1..Len(sc.log)}
       /\ \A i \in 1..Len(sc.log) : sc.log[i].n = 0

\* C16. The batch the deduplicator returns has unique identities: no two of
\* its records are the same rental under the identity rule.
DedupOutputUnique ==
    sc.deduped =>
       \A i, j \in 1..Len(sc.result) :
          i # j => ~IsSameRental(sc.result[i], sc.result[j])

\* C17. Once is_stale() holds, a query for a site with cached listings is not
\* answered from the database: it leads to a fresh acquisition and sync.
StaleQueryRefreshes ==
    [][\A u \in Urls, found \in BOOLEAN : \A b \in Batches(u) :
          (/\ Webhook(1, u, found, b)
           /\ IsUpdateNeeded(LoadData, now)
           /\ GetRentalsForWebsite(LoadData, u) # <<>>)
          => reply'.source # "database"]_vars

\* a step that marks the database as updated
MarksUpdated ==
    \/ \E p \in SeqProcs : MarkUpdated(p, "ok")
    \/ /\ reply'.source = "scrape"
       /\ \E u \in Urls \cap {reply'.website} :
             \E b \in {x \in Batches(u) : Len(x) = reply'.n} : Webhook(1, u, TRUE, b)

\* C18. is_stale() is true exactly when last_updated is null or lies more
\* than the refresh interval before the current time; right after
\* mark_updated() it is false, and it turns true again only when more than the
\* interval has passed since.
StalePolicy ==
    /\ [](IsUpdateNeeded(LoadData, now) <=>
             (\/ LoadData.last_updated = None
              \/ LoadData.last_updated + UpdateInterval < now))
    /\ [][/\ MarksUpdated => ~IsUpdateNeeded(LoadData', now')
          /\ (~IsUpdateNeeded(LoadData, now) /\ IsUpdateNeeded(LoadData', now'))
             => LoadData.last_updated + UpdateInterval < now']_vars

\* the database was marked as updated and is stale again
StaleAgain ==
    /\ LoadData.last_updated # None
    /\ IsUpdateNeeded(LoadData, now)
    /\ LoadData.rentals # <<>>

\* get_rentals_for_website(website) as its caller sees it: the rentals, or
\* the exception load_data let through
ReadRentals(website) ==
    [raised |-> LoadRaises,
     rentals |-> IF LoadRaises THEN <<>> ELSE GetRentalsForWebsite(LoadData, website)]

\* C19. When the durable file is missing or corrupt, every store operation
\* behaves as if the store were the empty well-formed root: the reads return
\* no rental and a stale store and do not raise, add, mark_updated and sync
\* work on the empty root, and the purge finds nothing.
FailureReadsAsEmpty ==
    /\ [](fstate # "ok" =>
             /\ \A u \in Urls : ReadRentals(u) = [raised |-> FALSE, rentals |-> <<>>]
             /\ IsUpdateNeeded(LoadData, now))
    /\ [][fstate # "ok" =>
             /\ \A r \in FailRecords :
                   Add(1, UrlS, r, "ok") => LoadData' = AddRental(EmptyRoot, UrlS, r, now).root
             /\ MarkUpdated(1, "ok") => LoadData' = [EmptyRoot EXCEPT !.last_updated = now]
             /\ \A d \in DaysOld, o \in SaveOutcomes :
                   ClearOldData(1, d, o) => LoadData' = EmptyRoot
             /\ \A b \in FailBatches :
                   SyncBegin(1, UrlS, b) =>
                      sy'[1].data = EmptyRoot /\ sy'[1].existing = {}]_vars

\* C20. In every store state the site of every stored listing has an entry
\* in websites.
ListingSiteHasPartition ==
    \A i \in 1..Len(LoadData.rentals) :
       LoadData.rentals[i].website \in DOMAIN LoadData.websites

\* both sites hold listings and a listing of one of them has been removed
\* since it was counted
BothSitesAfterRemoval ==
    /\ \A u \in Urls : GetRentalsForWebsite(LoadData, u) # <<>>
    /\ \E site \in DOMAIN LoadData.websites :
          LoadData.websites[site].rental_count > CountOfWebsite(LoadData.rentals, site)

\* data[key] of a Python dict
PyGet(p, key) == (CHOOSE kv \in p.v : kv[1] = key)[2]

RECURSIVE NotOlderThan(_, _)
NotOlderThan(rentals, cutoff) ==
    IF rentals = <<>> THEN <<>>
    ELSE IF Head(rentals).scraped_at < cutoff THEN NotOlderThan(Tail(rentals), cutoff)
    ELSE <<Head(rentals)>> \o NotOlderThan(Tail(rentals), cutoff)

\* C22. clear_old_data(days_old) deletes exactly the stored listings, of any
\* site, whose scraped_at is earlier than now minus days_old; every other
\* listing stays as it was.
PurgeExact ==
    [][\A d \in DaysOld :
          ClearOldData(1, d, "ok") =>
             LoadData'.rentals = NotOlderThan(LoadData.rentals, now - d)]_vars

\* at time 1 the store holds a listing scraped at 1 and none scraped at 0,
\* and a site holds fewer listings than were counted for it when its last one
\* was created: the older ones are gone
OldGoneNewKept ==
    /\ now = 1
    /\ LoadData.rentals # <<>>
    /\ \A i \in 1..Len(LoadData.rentals) : LoadData.rentals[i].scraped_at = 1
    /\ \E site \in DOMAIN LoadData.websites :
          CountOfWebsite(LoadData.rentals, site) < LoadData.websites[site].rental_count

\* the text block carries an immediate-availability signal
ImmediateSignal(text) == InLower("immediate", text) \/ InLower("now", text)

\* C23. Immediate-availability precedence: for every text block with an
\* immediate-availability signal, the record each field extractor returns
\* has available_date = "Immediate", whether or not a date pattern matched.
ImmediatePrecedence ==
    (ex.done /\ ImmediateSignal(ex.text)) =>
       \A r \in {ex.pw, ex.lc} :
          r.returned =>
             /\ "available_date" \in DOMAIN r.rec
             /\ r.rec.available_date = "Immediate"

\* C24. Boilerplate rejection: a text block that contains "resident sign in"
\* is returned as a record by neither field extractor.
BoilerplateRejected ==
    (ex.done /\ InLower("resident sign in", ex.text)) =>
       ~ex.lc.returned /\ ~ex.pw.returned

\* the run ended on a page load failure or an exception of a strategy
RunFailed ==
    \/ ~sc.loaded
    \/ \E i \in 1..Len(sc.log) : sc.log[i].error

\* C25. A run in which every strategy ran and produced zero records returns
\* the empty list; what the caller is told then differs from what it is told
\* after a run that ended on a page load failure or a scraper exception.
FailureDistinguishable ==
    (sc.pc = "done" /\ RunFailed) => Surfaced(sc.result) # Surfaced(<<>>)

\* C26. After any sequence of register_agent calls there is at most one
\* agent per vapi_assistant_id; a call with an id that is already registered
\* raises ValueError, creates no agent and leaves the registered agent as it
\* was.
DuplicateRegistrationRejected ==
    /\ [](\A i, j \in 1..Len(ag.rows) :
             i # j => ag.rows[i].vapi_assistant_id # ag.rows[j].vapi_assistant_id)
    /\ [][\A v \in VapiIds, n \in AgentNames, o \in InsertOutcomes :
             (/\ RegisterAgent(v, n, o)
              /\ \E i \in 1..Len(ag.rows) : ag.rows[i].vapi_assistant_id = v)
             => ag'.raised = "ValueError" /\ ag'.rows = ag.rows]_vars

\* a second registration of an id was just rejected, under another name
\* than the one the agent was registered with
SecondRegistrationRejected ==
    /\ ag.raised = "ValueError"
    /\ \E i \in 1..Len(ag.rows) :
          /\ ag.rows[i].vapi_assistant_id = ag.call
          /\ ag.rows[i].agent_name = "n1"
    /\ Len(ag.rows) = 2

\* C27. Creating a listing never overwrites another one: the id given to the
\* new listing is the key of no stored listing, the store grows by exactly
\* one listing and every listing stored before is still there as it was.
CreateNeverOverwrites ==
    [][\A u \in Urls : \A r \in RecordsOf(u) :
          (Add(1, u, r, "ok") /\ AddRental(LoadData, u, r, now).created)
          => /\ IndexOfId(LoadData.rentals, AddRental(LoadData, u, r, now).id) = 0
             /\ Len(LoadData'.rentals) = Len(LoadData.rentals) + 1
             /\ \A i \in 1..Len(LoadData.rentals) :
                   \E j \in 1..Len(LoadData'.rentals) :
                      LoadData'.rentals[j] = LoadData.rentals[i]]_vars

\* the clean names of the sites
Sites == {CleanWebsite(u) : u \in Urls}

\* the stored listings of one site, in stored order
RECURSIVE ListingsOfSite(_, _)
ListingsOfSite(rentals, site) ==
    IF rentals = <<>> THEN <<>>
    ELSE IF Head(rentals).website = site
         THEN <<Head(rentals)>> \o ListingsOfSite(Tail(rentals), site)
         ELSE ListingsOfSite(Tail(rentals), site)

\* a step leaves last_updated and every site but that of website as it was
OtherSitesUntouched(website) ==
    /\ LoadData'.last_updated = LoadData.last_updated
    /\ \A t \in Sites \ {CleanWebsite(website)} :
          /\ ListingsOfSite(LoadData'.rentals, t) = ListingsOfSite(LoadData.rentals, t)
          /\ (t \in DOMAIN LoadData'.websites) = (t \in DOMAIN LoadData.websites)
          /\ t \in DOMAIN LoadData.websites =>
                LoadData'.websites[t] = LoadData.websites[t]

\* C28. sync_rentals(S, B) changes only site S: the stored listings of every
\* other site and its websites entry are the same before and after the call,
\* and last_updated is unchanged.
SyncFrame ==
    [][\A u \in Urls :
          \/ OtherSitesUntouched(u)
          \/ \A b \in Batches(u) : ~Sync(1, u, b)]_vars

\* site s holds two listings and site t holds one, and the marker is set
TwoSitesSynced ==
    /\ CountOfWebsite(LoadData.rentals, CleanWebsite(UrlS)) = 2
    /\ CountOfWebsite(LoadData.rentals, CleanWebsite(UrlT)) = 1
    /\ LoadData.last_updated # None

\* what a root stores, without ids and timestamps: the site and the data of
\* every listing
StoredData(root) ==
    {<<root.rentals[i].website, root.rentals[i].data>> : i \in 1..Len(root.rentals)}

\* both processes have returned
BothDone == \A p \in Procs : pc[p] = "done"

\* the root after the sync of process p and then that of process q, run one
\* after the other on the root the first of them found
SerialSyncs(p, q) ==
    SyncRentals(SyncRentals(sy[p].root0, sy[p].website, sy[p].batch, now).root,
                sy[q].website, sy[q].batch, now).root

\* C29. Two syncs of different sites that interleave at their load and save
\* steps do not lose each other's writes: when both have returned the store
\* holds what it holds after some serial execution of the two, so every
\* record of both batches has a stored listing.
ConcurrentSyncsSerializable ==
    BothDone =>
       /\ StoredData(LoadData) \in {StoredData(SerialSyncs(1, 2)), StoredData(SerialSyncs(2, 1))}
       /\ \A p \in Procs : \A i \in 1..Len(sy[p].batch) :
             FindExistingRental(LoadData, CleanWebsite(sy[p].website), sy[p].batch[i]) # 0

\* the root after the sync of process 1 and update_rental_database of
\* process 2, in the two serial orders
SyncThenHousekeeping ==
    UpdateRentalDatabase(SyncRentals(sy[1].root0, sy[1].website, sy[1].batch, now).root,
                         sy[2].days_old, now)
HousekeepingThenSync ==
    SyncRentals(UpdateRentalDatabase(sy[1].root0, sy[2].days_old, now),
                sy[1].website, sy[1].batch, now).root

\* C30. update_rental_database of the scheduler process interleaved with a
\* sync in flight leaves the store as some serial order of the two leaves it:
\* no listing the sync committed is lost, none it removed is back.
HousekeepingSerializable ==
    BothDone =>
       \E r \in {SyncThenHousekeeping, HousekeepingThenSync} :
          /\ StoredData(LoadData) = StoredData(r)
          /\ LoadData.last_updated = r.last_updated

====
